---- MODULE Spec2Model ----
(***************************************************************************)
(* Model of label_printing/static/app.js: the typeahead product search,    *)
(* the label preview and the print submission of the label print console.  *)
(*                                                                         *)
(* Strings are sequences of one-character strings.  A nullable value is    *)
(* the empty sequence (null / absent) or a one-element sequence.           *)
(* Every handler is one action.  An async handler is two: its run up to    *)
(* the request, and its run from the answer on (it touches no state        *)
(* between fetch and res.json(), so the two awaits are one suspension).    *)
(* The variable out holds what the last step emitted to the outside        *)
(* (network requests, image loads, alerts, cancelled timers).              *)
(***************************************************************************)
EXTENDS Integers, Sequences, FiniteSets, Bags, TLC

\* ------------------------------------------------------------------ bounds

\* Most /api/products requests in flight at once.
MaxSearches == 2
\* Most /api/print requests in flight at once.
MaxPrints == 2

\* The debounce quiet period of the search box.
Delay == 180
\* The amounts by which time advances in one step.
TickSteps == {90, 180}

\* ------------------------------------------------------------------ strings

Null == <<>>
Some(x) == <<x>>

IsSpace(c) == c = " "

RECURSIVE TrimStart(_)
TrimStart(s) ==
  IF s # <<>> /\ IsSpace(Head(s)) THEN TrimStart(Tail(s)) ELSE s

RECURSIVE TrimEnd(_)
TrimEnd(s) ==
  IF s # <<>> /\ IsSpace(s[Len(s)]) THEN TrimEnd(SubSeq(s, 1, Len(s) - 1)) ELSE s

\* String.prototype.trim
Trim(s) == TrimEnd(TrimStart(s))

Unreserved ==
  {"a", "b", "c", "x", "S", "V", "M", "T", "R",
   "0", "1", "2", "3", "4", "5", "6", "7", "8", "9", "-"}

PercentCode(c) ==
  CASE c = " " -> <<"%", "2", "0">>
    [] c = "/" -> <<"%", "2", "F">>
    [] c = "+" -> <<"%", "2", "B">>
    [] OTHER   -> <<"%", "?", "?">>

\* encodeURIComponent, one character
UriChar(c) == IF c \in Unreserved THEN <<c>> ELSE PercentCode(c)

\* application/x-www-form-urlencoded (URLSearchParams), one character
FormChar(c) ==
  IF c \in Unreserved THEN <<c>>
  ELSE IF c = " " THEN <<"+">> ELSE PercentCode(c)

RECURSIVE encodeURIComponent(_)
encodeURIComponent(s) ==
  IF s = <<>> THEN <<>> ELSE UriChar(Head(s)) \o encodeURIComponent(Tail(s))

RECURSIVE FormEncode(_)
FormEncode(s) ==
  IF s = <<>> THEN <<>> ELSE FormChar(Head(s)) \o FormEncode(Tail(s))

\* Array.prototype.join over an array of strings.
RECURSIVE Join(_, _)
Join(parts, sep) ==
  IF parts = <<>> THEN <<>>
  ELSE IF Len(parts) = 1 THEN parts[1]
  ELSE parts[1] \o sep \o Join(Tail(parts), sep)

\* ------------------------------------------------------------------ numbers

Digits == <<"0", "1", "2", "3", "4", "5", "6", "7", "8", "9">>
IsDigit(c) == \E i \in 1..10 : Digits[i] = c
DigitVal(c) == (CHOOSE i \in 1..10 : Digits[i] = c) - 1

\* A JS number: an integer or NaN.
Num(n) == [nan |-> FALSE, val |-> n]
NaN == [nan |-> TRUE, val |-> 0]

RECURSIVE DigitPrefix(_)
DigitPrefix(s) ==
  IF s # <<>> /\ IsDigit(Head(s)) THEN <<Head(s)>> \o DigitPrefix(Tail(s)) ELSE <<>>

RECURSIVE DigitsValue(_)
DigitsValue(ds) ==
  IF ds = <<>> THEN 0 ELSE 10 * DigitsValue(SubSeq(ds, 1, Len(ds) - 1)) + DigitVal(ds[Len(ds)])

\* parseInt(s, 10): leading white space, an optional sign, the longest run
\* of decimal digits; NaN when there is no digit.
parseInt(s) ==
  LET t == TrimStart(s)
      signed == t # <<>> /\ Head(t) \in {"-", "+"}
      neg == t # <<>> /\ Head(t) = "-"
      rest == IF signed THEN Tail(t) ELSE t
      ds == DigitPrefix(rest)
  IN  IF ds = <<>> THEN NaN
      ELSE Num(IF neg THEN 0 - DigitsValue(ds) ELSE DigitsValue(ds))

\* Math.max(a, b): NaN when either argument is NaN.
MathMax(a, b) ==
  IF a.nan \/ b.nan THEN NaN
  ELSE IF a.val >= b.val THEN a ELSE b

\* Number to string, as characters.
RECURSIVE NatChars(_)
NatChars(n) ==
  IF n < 10 THEN <<Digits[n + 1]>> ELSE NatChars(n \div 10) \o <<Digits[(n % 10) + 1]>>

\* JSON.stringify of a number: NaN is serialised as null.
JsonNumber(x) == IF x.nan THEN [null |-> TRUE, val |-> 0] ELSE [null |-> FALSE, val |-> x.val]

\* ------------------------------------------------------------------ data

\* Two products of the catalogue, as /api/products returns them.
P1 ==
  [name |-> <<"T">>, barcode |-> <<"8", "1">>, quantity |-> 250, measure |-> <<"g">>,
   mrp |-> 60, retail_price |-> 55]
P2 ==
  [name |-> <<"R", " ", "M">>, barcode |-> <<"8", "2">>, quantity |-> 1, measure |-> <<"k", "g">>,
   mrp |-> 90, retail_price |-> 84]
Products == {P1, P2}

\* The bodies /api/products answers with: JSON arrays of Product.
SearchResults == {<<>>, <<P1>>, <<P2, P1>>}

\* Texts a user leaves in the search box by one edit.
SearchTexts == {<<>>, <<" ">>, <<"a", " ">>, <<" ", "b", " ", "c">>}
\* Texts a user leaves in the store-name, expiry and count fields.
StoreTexts == {<<"S", " ", "V", " ">>, <<"M">>}
ExpTexts == {<<>>, <<" ", "1", "/", "7">>}
CountTexts == {<<>>, <<"0">>, <<"-", "3">>, <<"a", "b", "c">>, <<"5">>, <<" ", "1", "2", "x">>}

\* The bodies /api/print answers with: {ok, printed, errors?}.
Jam == <<"j", "a", "m">>
Feed == <<"f", "e", "e", "d">>
PrintBodies ==
  {[ok |-> TRUE, printed |-> 5, errors |-> Null],
   [ok |-> TRUE, printed |-> 3, errors |-> Some(<<>>)],
   [ok |-> FALSE, printed |-> 2, errors |-> Some(<<Jam>>)],
   [ok |-> FALSE, printed |-> 0, errors |-> Some(<<Jam, Feed>>)],
   [ok |-> FALSE, printed |-> 1, errors |-> Null]}

\* The messages of the errors a rejected fetch or body read carries.
ErrorMessages == {<<"Failed to fetch">>, <<"Unexpected end of JSON input">>}

\* What a handler run emits: a network request, an image load or an alert.
Get(url) == [effect |-> "GET", url |-> url, body |-> <<>>, text |-> <<>>]
Img(url) == [effect |-> "IMG", url |-> url, body |-> <<>>, text |-> <<>>]
Post(url, payload) == [effect |-> "POST", url |-> url, body |-> <<payload>>, text |-> <<>>]
\* A pending timer cancelled by clearTimeout.
Cancelled == [effect |-> "CANCEL", url |-> <<>>, body |-> <<>>, text |-> <<>>]
Alert(text) == [effect |-> "ALERT", url |-> <<>>, body |-> <<>>, text |-> text]

\* ------------------------------------------------------------------ state

VARIABLES
  selectedProduct,     \* Null or Some(product)
  searchTimer,         \* 0 (null) or the id of the timer scheduled last
  timers,              \* the pending timers of the event loop: [id, q, remaining]
  searchValue,         \* productSearch.value
  suggestionsDisplay,  \* suggestions.style.display: "none" or "block"
  suggestionItems,     \* the rows of the suggestion list, each with its product
  previewSrc,          \* Null or Some(the src attribute of previewImg)
  metaText,            \* metaDiv.textContent
  printDisabled,       \* printBtn.disabled
  printText,           \* printBtn.textContent
  countValue,          \* countInput.value
  expValue,            \* expInput.value
  storeValue,          \* storeNameInput.value
  searches,            \* the search callbacks suspended at an await, oldest request
                       \* first: [q, overtaken], overtaken when the answer to a
                       \* request issued later has been rendered already
  prints,              \* bag of print handlers suspended at an await
  out,                 \* what the last step emitted
  sinceEdit,           \* time since the last search-box edit, saturating at Delay
  lastQ,               \* the trimmed text of the last search-box edit
  burstReqs,           \* /api/products requests issued since the last edit that
                       \* came a full Delay after the edit before it (at most 2 counted)
  burstEdits,          \* search-box edits since that edit, itself included (at most 2 counted)
  event,               \* the handler that ran in the last step
  staleRender          \* the last step rendered the answer to an overtaken request

dom == <<searchValue, suggestionsDisplay, suggestionItems, previewSrc, metaText,
         printDisabled, printText, countValue, expValue, storeValue>>
vars == <<selectedProduct, searchTimer, timers, dom, searches, prints, out,
          sinceEdit, lastQ, burstReqs, burstEdits, event, staleRender>>

\* The page as loaded, before any event: the print control disabled with the
\* label "Print", no suggestions, no preview, the search box empty.
PageLoaded ==
  /\ searchValue = <<>>
  /\ suggestionsDisplay = "none"
  /\ suggestionItems = <<>>
  /\ previewSrc = Null
  /\ metaText = <<>>
  /\ printDisabled = TRUE
  /\ printText = "Print"

\* The state after the script has run on the loaded page, the three fields
\* holding any of the texts of I.
InitOver(I) ==
  /\ PageLoaded
  /\ selectedProduct = Null
  /\ searchTimer = 0
  /\ timers = {}
  /\ countValue \in I.count
  /\ expValue \in I.exp
  /\ storeValue \in I.store
  /\ searches = <<>>
  /\ prints = EmptyBag
  /\ out = <<>>
  /\ sinceEdit = Delay
  /\ lastQ = <<>>
  /\ burstReqs = 0
  /\ burstEdits = 0
  /\ event = "load"
  /\ staleRender = FALSE

\* ------------------------------------------------------------------ timers

\* A clearTimeout that cancels nothing.
clearTimeoutNothing(h, ts) == ts

\* clearTimeout(h): the timer with handle h, if still pending, is removed.
clearTimeout(h, ts) == {t \in ts : t.id # h}

\* The id setTimeout returns: one no pending timer has and no handle held refers to.
FreshId(ts, h) ==
  LET free == {i \in 1..(Cardinality(ts) + 2) : i # h /\ \A t \in ts : t.id # i}
  IN  CHOOSE i \in free : \A j \in free : i <= j

\* setTimeout(callback closing over q, Delay)
setTimeout(ts, h, q) == ts \cup {[id |-> FreshId(ts, h), q |-> q, remaining |-> Delay]}

Min(a, b) == IF a <= b THEN a ELSE b
Max(a, b) == IF a >= b THEN a ELSE b

\* ------------------------------------------------------------------ preview

\* new URLSearchParams({barcode, store, exp}).toString() behind "/preview?"
PreviewUrl(barcode, store, exp) ==
  <<"/preview?">> \o <<"barcode=">> \o FormEncode(barcode)
    \o <<"&store=">> \o FormEncode(store) \o <<"&exp=">> \o FormEncode(exp)

MetaText(p) ==
  <<"Barcode: ">> \o p.barcode \o <<" | ">>
    \o <<"QTY: ">> \o NatChars(p.quantity) \o <<" ">> \o p.measure \o <<" | ">>
    \o <<"MRP: ₹">> \o NatChars(p.mrp) \o <<" | RP: ₹">> \o NatChars(p.retail_price)

\* An updatePreview that sends the two fields as typed, untrimmed.
updatePreviewUntrimmed(sel, store, exp, src, meta) ==
  IF sel = Null THEN [src |-> src, meta |-> meta, out |-> <<>>]
  ELSE LET url == PreviewUrl(sel[1].barcode, store, exp)
       IN  [src |-> Some(url), meta |-> MetaText(sel[1]), out |-> <<Img(url)>>]

\* An updatePreview without the guard on the selection: it clears nothing,
\* and asks for the preview of no barcode.
updatePreviewNoGuard(sel, store, exp, src, meta) ==
  LET code == IF sel = Null THEN <<>> ELSE sel[1].barcode
      url == PreviewUrl(code, Trim(store), Trim(exp))
  IN  [src |-> Some(url), meta |-> IF sel = Null THEN meta ELSE MetaText(sel[1]),
       out |-> <<Img(url)>>]

\* updatePreview(): what it leaves in previewImg.src and metaDiv.textContent and
\* what it emits, given the selection, the two fields and the current src and meta.
updatePreview(sel, store, exp, src, meta) ==
  IF sel = Null THEN [src |-> src, meta |-> meta, out |-> <<>>]
  ELSE LET url == PreviewUrl(sel[1].barcode, Trim(store), Trim(exp))
       IN  [src |-> Some(url), meta |-> MetaText(sel[1]), out |-> <<Img(url)>>]

\* A selectProduct that does not refresh the preview.
selectProductNoPreview(p, store, exp, src, meta) ==
  [selected |-> Some(p), value |-> p.name, display |-> "none", disabled |-> FALSE,
   src |-> src, meta |-> meta, out |-> <<>>]

\* selectProduct(p): the selection, search box, suggestion display and print
\* control it leaves, then updatePreview().
selectProduct(p, store, exp, src, meta) ==
  LET up == updatePreview(Some(p), store, exp, src, meta)
  IN  [selected |-> Some(p), value |-> p.name, display |-> "none", disabled |-> FALSE,
       src |-> up.src, meta |-> up.meta, out |-> up.out]

\* ------------------------------------------------------------------ search

\* A handler that returns on an empty query before it clears the timer.
RescheduleReturnFirst(q, h, ts, display) ==
  IF q = <<>> THEN [timers |-> ts, handle |-> h, display |-> "none"]
  ELSE LET cleared == IF h # 0 THEN clearTimeout(h, ts) ELSE ts
       IN  [timers |-> setTimeout(cleared, h, q), handle |-> FreshId(cleared, h),
            display |-> display]

\* A handler that does not keep the handle of the timer it sets.
RescheduleKeepsHandle(q, h, ts, display) ==
  LET cleared == IF h # 0 THEN clearTimeout(h, ts) ELSE ts
  IN  IF q = <<>>
        THEN [timers |-> cleared, handle |-> h, display |-> "none"]
        ELSE [timers |-> setTimeout(cleared, h, q), handle |-> h, display |-> display]

\* Lines 25-41 of the handler: the timers, the handle and the suggestion
\* display it leaves for the trimmed text q.
Reschedule(q, h, ts, display) ==
  LET cleared == IF h # 0 THEN clearTimeout(h, ts) ELSE ts
  IN  IF q = <<>>
        THEN [timers |-> cleared, handle |-> h, display |-> "none"]
        ELSE [timers |-> setTimeout(cleared, h, q), handle |-> FreshId(cleared, h),
              display |-> display]

\* A handler that keeps the selection over an edit of the search box.
SearchInputKeepsSelection(text) ==
  LET q == Trim(text)
      rs == Reschedule(q, searchTimer, timers, suggestionsDisplay)
  IN  /\ searchValue' = text
      /\ printDisabled' = TRUE
      /\ metaText' = <<>>
      /\ previewSrc' = Null
      /\ timers' = rs.timers
      /\ searchTimer' = rs.handle
      /\ suggestionsDisplay' = rs.display
      /\ out' = IF \E t \in timers : t \notin rs.timers THEN <<Cancelled>> ELSE <<>>
      /\ sinceEdit' = 0
      /\ lastQ' = q
      /\ burstReqs' = IF sinceEdit >= Delay THEN 0 ELSE burstReqs
      /\ burstEdits' = IF sinceEdit >= Delay THEN 1 ELSE Min(2, burstEdits + 1)
      /\ event' = "SearchInput"
      /\ UNCHANGED <<selectedProduct, suggestionItems, printText, countValue, expValue,
                     storeValue, searches, prints>>
      /\ staleRender' = FALSE

\* productSearch "input" handler: the user leaves text in the search box.
SearchInput(text) ==
  LET q == Trim(text)
      rs == Reschedule(q, searchTimer, timers, suggestionsDisplay)
  IN  /\ searchValue' = text
      /\ selectedProduct' = Null
      /\ printDisabled' = TRUE
      /\ metaText' = <<>>
      /\ previewSrc' = Null
      /\ timers' = rs.timers
      /\ searchTimer' = rs.handle
      /\ suggestionsDisplay' = rs.display
      /\ out' = IF \E t \in timers : t \notin rs.timers THEN <<Cancelled>> ELSE <<>>
      /\ sinceEdit' = 0
      /\ lastQ' = q
      /\ burstReqs' = IF sinceEdit >= Delay THEN 0 ELSE burstReqs
      /\ burstEdits' = IF sinceEdit >= Delay THEN 1 ELSE Min(2, burstEdits + 1)
      /\ event' = "SearchInput"
      /\ UNCHANGED <<suggestionItems, printText, countValue, expValue, storeValue,
                     searches, prints>>
      /\ staleRender' = FALSE

\* `/api/products?q=${encodeURIComponent(q)}`
SearchUrl(q) == <<"/api/products?q=">> \o encodeURIComponent(q)

\* A due timer runs its callback up to the first await: the request is issued.
TimerFire(t) ==
  /\ t \in timers
  /\ t.remaining = 0
  /\ Len(searches) < MaxSearches
  /\ timers' = timers \ {t}
  /\ searches' = Append(searches, [q |-> t.q, overtaken |-> FALSE])
  /\ out' = <<Get(SearchUrl(t.q))>>
  /\ burstReqs' = Min(2, burstReqs + 1)
  /\ UNCHANGED <<burstEdits, selectedProduct, searchTimer, dom, prints, sinceEdit, lastQ>>
  /\ event' = "TimerFire"
  /\ staleRender' = FALSE

\* A render that leaves the list as shown as it was for an empty array.
RenderSuggestionsKeepShown(items, display) ==
  IF Len(items) = 0 THEN [items |-> <<>>, display |-> display]
  ELSE [items |-> items, display |-> "block"]

\* What the callback leaves in the suggestion list for the array items.
RenderSuggestions(items, display) ==
  IF Len(items) = 0 THEN [items |-> <<>>, display |-> "none"]
  ELSE [items |-> items, display |-> "block"]

\* The callbacks left suspended when callback k ends.
Without(ss, k) == SubSeq(ss, 1, k - 1) \o SubSeq(ss, k + 1, Len(ss))

\* The callbacks left suspended when callback k has rendered its answer:
\* those of older requests are overtaken.
Overtake(ss, k) ==
  [i \in 1..(k - 1) |-> [ss[i] EXCEPT !.overtaken = TRUE]] \o SubSeq(ss, k + 1, Len(ss))

\* A callback that drops the answer to an overtaken request.
SearchRenderedLatestOnly(k, items) ==
  /\ k \in 1..Len(searches)
  /\ IF searches[k].overtaken
       THEN /\ searches' = Without(searches, k)
            /\ UNCHANGED <<suggestionItems, suggestionsDisplay>>
       ELSE /\ searches' = Overtake(searches, k)
            /\ LET rs == RenderSuggestions(items, suggestionsDisplay)
               IN  /\ suggestionItems' = rs.items
                   /\ suggestionsDisplay' = rs.display
  /\ out' = <<>>
  /\ UNCHANGED <<selectedProduct, searchTimer, timers, searchValue, previewSrc, metaText,
                 printDisabled, printText, countValue, expValue, storeValue, prints,
                 sinceEdit, lastQ, burstReqs, burstEdits>>
  /\ event' = "SearchRendered"
  /\ staleRender' = FALSE

\* fetch, then res.json(), resolve with items for callback k; it renders them
\* and ends.  (The callback touches no state between its two awaits.)
SearchRendered(k, items) ==
  /\ k \in 1..Len(searches)
  /\ searches' = Overtake(searches, k)
  /\ LET rs == RenderSuggestions(items, suggestionsDisplay)
     IN  /\ suggestionItems' = rs.items
         /\ suggestionsDisplay' = rs.display
  /\ out' = <<>>
  /\ UNCHANGED <<selectedProduct, searchTimer, timers, searchValue, previewSrc, metaText,
                 printDisabled, printText, countValue, expValue, storeValue, prints,
                 sinceEdit, lastQ, burstReqs, burstEdits>>
  /\ event' = "SearchRendered"
  /\ staleRender' = searches[k].overtaken

\* A callback that empties and hides the list when its request fails.
SearchRejectedHides(k) ==
  /\ k \in 1..Len(searches)
  /\ searches' = Without(searches, k)
  /\ suggestionItems' = <<>>
  /\ suggestionsDisplay' = "none"
  /\ out' = <<>>
  /\ UNCHANGED <<selectedProduct, searchTimer, timers, searchValue, previewSrc, metaText,
                 printDisabled, printText, countValue, expValue, storeValue, prints,
                 sinceEdit, lastQ, burstReqs, burstEdits>>
  /\ event' = "SearchRejected"
  /\ staleRender' = FALSE

\* fetch or res.json() of callback k rejects: it ends with an unhandled rejection.
SearchRejected(k) ==
  /\ k \in 1..Len(searches)
  /\ searches' = Without(searches, k)
  /\ out' = <<>>
  /\ UNCHANGED <<selectedProduct, searchTimer, timers, dom, prints, sinceEdit, lastQ,
                 burstReqs, burstEdits>>
  /\ event' = "SearchRejected"
  /\ staleRender' = FALSE

\* A click on row i of the visible suggestion list: selectProduct(p).
SuggestionClick(i) ==
  /\ suggestionsDisplay = "block"
  /\ i \in 1..Len(suggestionItems)
  /\ LET sp == selectProduct(suggestionItems[i], storeValue, expValue, previewSrc, metaText)
     IN  /\ selectedProduct' = sp.selected
         /\ searchValue' = sp.value
         /\ suggestionsDisplay' = sp.display
         /\ printDisabled' = sp.disabled
         /\ previewSrc' = sp.src
         /\ metaText' = sp.meta
         /\ out' = sp.out
  /\ UNCHANGED <<searchTimer, timers, suggestionItems, printText, countValue, expValue,
                 storeValue, searches, prints, sinceEdit, lastQ, burstReqs, burstEdits>>
  /\ event' = "SuggestionClick"
  /\ staleRender' = FALSE

\* ------------------------------------------------------------------ fields

\* A store-name field whose edits do not refresh the preview.
StoreInputNoRefresh(text) ==
  /\ storeValue' = text
  /\ out' = <<>>
  /\ event' = "StoreInput"
  /\ UNCHANGED <<selectedProduct, searchTimer, timers, searchValue, suggestionsDisplay,
                 suggestionItems, previewSrc, metaText, printDisabled, printText,
                 countValue, expValue, searches, prints, sinceEdit, lastQ, burstReqs,
                 burstEdits>>
  /\ staleRender' = FALSE

\* storeNameInput "input" handler: updatePreview.
StoreInput(text) ==
  /\ storeValue' = text
  /\ LET up == updatePreview(selectedProduct, text, expValue, previewSrc, metaText)
     IN  /\ previewSrc' = up.src
         /\ metaText' = up.meta
         /\ out' = up.out
  /\ UNCHANGED <<selectedProduct, searchTimer, timers, searchValue, suggestionsDisplay,
                 suggestionItems, printDisabled, printText, countValue, expValue,
                 searches, prints, sinceEdit, lastQ, burstReqs, burstEdits>>
  /\ event' = "StoreInput"
  /\ staleRender' = FALSE

\* expInput "input" handler: updatePreview.
ExpInput(text) ==
  /\ expValue' = text
  /\ LET up == updatePreview(selectedProduct, storeValue, text, previewSrc, metaText)
     IN  /\ previewSrc' = up.src
         /\ metaText' = up.meta
         /\ out' = up.out
  /\ UNCHANGED <<selectedProduct, searchTimer, timers, searchValue, suggestionsDisplay,
                 suggestionItems, printDisabled, printText, countValue, storeValue,
                 searches, prints, sinceEdit, lastQ, burstReqs, burstEdits>>
  /\ event' = "ExpInput"
  /\ staleRender' = FALSE

\* The count field has no handler: an edit only changes its value.
CountInput(text) ==
  /\ countValue' = text
  /\ out' = <<>>
  /\ UNCHANGED <<selectedProduct, searchTimer, timers, searchValue, suggestionsDisplay,
                 suggestionItems, previewSrc, metaText, printDisabled, printText,
                 expValue, storeValue, searches, prints, sinceEdit, lastQ, burstReqs, burstEdits>>
  /\ event' = "CountInput"
  /\ staleRender' = FALSE

\* ------------------------------------------------------------------ print

\* Math.max(1, parseInt(countInput.value || "1", 10))
PrintCount(text) == MathMax(Num(1), parseInt(IF text = <<>> THEN <<"1">> ELSE text))

\* A payload that names the product by its name, not its barcode.
PayloadByName(p, count, store, exp) ==
  [barcode |-> p.name, count |-> JsonNumber(PrintCount(count)),
   store_name |-> Trim(store), exp |-> Trim(exp)]

\* The request body: JSON.stringify(payload).
Payload(p, count, store, exp) ==
  [barcode |-> p.barcode, count |-> JsonNumber(PrintCount(count)),
   store_name |-> Trim(store), exp |-> Trim(exp)]

PrintUrl == <<"/api/print">>

\* A print handler suspended at an await holds nothing the model reads.
PrintRecord == [stage |-> "await"]

\* The busy label, "Printing" and the ellipsis character U+2026.
Busy == "Printing..."

\* printBtn "click" handler up to the first await.  A disabled button
\* dispatches no click.
PrintClick ==
  /\ ~printDisabled
  /\ IF selectedProduct = Null
       THEN /\ out' = <<>>
            /\ UNCHANGED <<printDisabled, printText, prints>>
       ELSE /\ BagCardinality(prints) < MaxPrints
            /\ printDisabled' = TRUE
            /\ printText' = Busy
            /\ prints' = prints (+) SetToBag({PrintRecord})
            /\ out' = <<Post(PrintUrl,
                             Payload(selectedProduct[1], countValue, storeValue, expValue))>>
  /\ UNCHANGED <<selectedProduct, searchTimer, timers, searchValue, suggestionsDisplay,
                 suggestionItems, previewSrc, metaText, countValue, expValue, storeValue,
                 searches, sinceEdit, lastQ, burstReqs, burstEdits>>
  /\ event' = "PrintClick"
  /\ staleRender' = FALSE

SuccessText(data) == <<"Printed ">> \o NatChars(data.printed) \o <<" label(s).">>

\* data.errors?.join("; ") in a template: "undefined" when errors is absent.
ErrorsText(errors) == IF errors = Null THEN <<"undefined">> ELSE Join(errors[1], <<";", " ">>)

FailureText(data) ==
  <<"Partial/failed print. Printed: ">> \o NatChars(data.printed)
    \o <<". Errors: ">> \o ErrorsText(data.errors)

\* A report that looks at the body alone, not at the HTTP status.
PrintReportBodyOnly(resOk, data) ==
  IF data.ok THEN Alert(SuccessText(data)) ELSE Alert(FailureText(data))

\* The alert of the try block for a response of status resOk with body data.
PrintReport(resOk, data) ==
  IF resOk /\ data.ok THEN Alert(SuccessText(data)) ELSE Alert(FailureText(data))

\* A catch block that does not give the reason.
PrintFailureNoReason(message) == Alert(<<"Print failed">>)

\* The alert of the catch block.
PrintFailure(message) == Alert(<<"Print failed: ">> \o message)

\* A finally block that re-enables the control but leaves the busy label.
PrintFinallyBusy == [text |-> Busy, disabled |-> FALSE]

\* The finally block: the label and the disabled flag of the print control.
PrintFinally == [text |-> "Print", disabled |-> FALSE]

\* fetch resolves with a response of status resOk, then res.json() with data:
\* the alert, then the finally block.  (The handler touches no state between
\* its two awaits.)
PrintAnswered(r, resOk, data) ==
  /\ BagIn(r, prints)
  /\ prints' = prints (-) SetToBag({r})
  /\ out' = <<PrintReport(resOk, data)>>
  /\ printText' = PrintFinally.text
  /\ printDisabled' = PrintFinally.disabled
  /\ UNCHANGED <<selectedProduct, searchTimer, timers, searchValue, suggestionsDisplay,
                 suggestionItems, previewSrc, metaText, countValue, expValue, storeValue,
                 searches, sinceEdit, lastQ, burstReqs, burstEdits>>
  /\ event' = "PrintAnswered"
  /\ staleRender' = FALSE

\* fetch or res.json() rejects with an error: the catch block, then finally.
PrintRejected(r, message) ==
  /\ BagIn(r, prints)
  /\ prints' = prints (-) SetToBag({r})
  /\ out' = <<PrintFailure(message)>>
  /\ printText' = PrintFinally.text
  /\ printDisabled' = PrintFinally.disabled
  /\ UNCHANGED <<selectedProduct, searchTimer, timers, searchValue, suggestionsDisplay,
                 suggestionItems, previewSrc, metaText, countValue, expValue, storeValue,
                 searches, sinceEdit, lastQ, burstReqs, burstEdits>>
  /\ event' = "PrintRejected"
  /\ staleRender' = FALSE

\* ------------------------------------------------------------------ time

\* Time passes by d: pending timers come closer to due.
Tick(d) ==
  /\ timers' = {[t EXCEPT !.remaining = Max(0, t.remaining - d)] : t \in timers}
  /\ sinceEdit' = Min(Delay, sinceEdit + d)
  /\ out' = <<>>
  /\ UNCHANGED <<selectedProduct, searchTimer, dom, searches, prints, lastQ, burstReqs, burstEdits>>
  /\ event' = "Tick"
  /\ staleRender' = FALSE

\* ------------------------------------------------------------------ system

\* The inputs of a specification: the texts users type and the bodies and
\* errors the server answers with.
AllInputs ==
  [search |-> SearchTexts, store |-> StoreTexts, exp |-> ExpTexts, count |-> CountTexts,
   results |-> SearchResults, bodies |-> PrintBodies, errors |-> ErrorMessages]

NextOver(I) ==
  \/ \E text \in I.search : SearchInput(text)
  \/ \E t \in timers : TimerFire(t)
  \/ \E k \in 1..Len(searches), items \in I.results : SearchRendered(k, items)
  \/ \E k \in 1..Len(searches) : SearchRejected(k)
  \/ \E i \in 1..2 : SuggestionClick(i)
  \/ \E text \in I.store : StoreInput(text)
  \/ \E text \in I.exp : ExpInput(text)
  \/ \E text \in I.count : CountInput(text)
  \/ PrintClick
  \/ \E resOk \in BOOLEAN, data \in I.bodies : PrintAnswered(PrintRecord, resOk, data)
  \/ \E message \in I.errors : PrintRejected(PrintRecord, message)
  \/ \E d \in TickSteps : Tick(d)

\* The console under every search text, with one text per field, answers of
\* no product or one, and one print body.
MainInputs ==
  [AllInputs EXCEPT !.store = {<<"S", " ", "V", " ">>}, !.exp = {<<" ", "1", "/", "7">>},
                    !.count = {<<"5">>}, !.results = {<<>>, <<P1>>},
                    !.bodies = {b \in PrintBodies : b.printed = 5},
                    !.errors = {<<"Failed to fetch">>}]
Init == InitOver(MainInputs)
Next == NextOver(MainInputs)
Spec == Init /\ [][Next]_vars

\* The console under every text of the store and expiry fields.
FieldInputs ==
  [AllInputs EXCEPT !.search = {<<" ">>, <<"a", " ">>}, !.count = {<<"5">>},
                    !.results = {<<>>, <<P2, P1>>},
                    !.bodies = {b \in PrintBodies : b.printed = 5},
                    !.errors = {<<"Failed to fetch">>}]
InitFields == InitOver(FieldInputs)
NextFields == NextOver(FieldInputs)
SpecFields == InitFields /\ [][NextFields]_vars

\* The console under every text of the count field.
CountInputs ==
  [AllInputs EXCEPT !.search = {<<" ">>, <<"a", " ">>},
                    !.store = {<<"S", " ", "V", " ">>}, !.exp = {<<" ", "1", "/", "7">>},
                    !.results = {<<>>, <<P1>>},
                    !.bodies = {b \in PrintBodies : b.printed = 5},
                    !.errors = {<<"Failed to fetch">>}]
InitCount == InitOver(CountInputs)
NextCount == NextOver(CountInputs)
SpecCount == InitCount /\ [][NextCount]_vars

\* The console under every answer of /api/print.
PrintInputs ==
  [AllInputs EXCEPT !.search = {<<" ">>, <<"a", " ">>}, !.results = {<<>>, <<P1>>},
                    !.store = {<<"S", " ", "V", " ">>}, !.exp = {<<" ", "1", "/", "7">>},
                    !.count = {<<"5">>}]
InitPrint == InitOver(PrintInputs)
NextPrint == NextOver(PrintInputs)
SpecPrint == InitPrint /\ [][NextPrint]_vars

\* The console under every answer of /api/print, where every print request
\* in flight is eventually answered or fails.
PrintSettles ==
  \/ \E resOk \in BOOLEAN, data \in PrintInputs.bodies : PrintAnswered(PrintRecord, resOk, data)
  \/ \E message \in PrintInputs.errors : PrintRejected(PrintRecord, message)
SpecPrintLive == SpecPrint /\ WF_vars(PrintSettles)

\* ------------------------------------------------------------------ claims

Effects(kind) == {i \in DOMAIN out : out[i].effect = kind}
EffectsNext(kind) == {i \in DOMAIN out' : out'[i].effect = kind}

\* C1: whenever the print control is enabled, a product is selected.
C1_EnabledOnlyWithSelection == ~printDisabled => selectedProduct # Null

\* C2: while a print request is in flight, the print control is disabled and
\* shows the busy label.
C2_BusyWhileInFlight == prints # EmptyBag => printDisabled /\ printText = Busy

\* C3: every submitted count is an integer >= 1; it is 1 for the count texts
\* "", "0", "-3" and "abc", and 5 for "5".
C3_SubmittedCount ==
  \A i \in Effects("POST") :
    LET c == out[i].body[1].count
    IN  /\ ~c.null
        /\ c.val >= 1
        /\ countValue \in {<<>>, <<"0">>, <<"-", "3">>, <<"a", "b", "c">>} => c.val = 1
        /\ countValue = <<"5">> => c.val = 5

\* C4: edits that follow one another within the quiet period issue exactly one
\* /api/products request: none before the quiet period has passed since the
\* last edit, then one for the trimmed text of the last edit; every edit
\* cancels the query scheduled before it.
C4_Pending ==
  /\ burstReqs <= 1
  /\ (lastQ # <<>> /\ burstReqs = 0) =>
       timers = {[id |-> searchTimer, q |-> lastQ, remaining |-> Delay - sinceEdit]}
C4_Step ==
  /\ EffectsNext("GET") # {} =>
       /\ sinceEdit = Delay
       /\ out' = <<Get(SearchUrl(lastQ))>>
       /\ burstReqs = 0 /\ burstReqs' = 1
       /\ timers' = {}
  /\ event' = "SearchInput" /\ sinceEdit' = 0 =>
       /\ EffectsNext("GET") = {}
       /\ \A t \in timers' : t.q = lastQ' /\ t.remaining = Delay
\* C4 as a whole: the debounce invariant holds always and every step obeys C4_Step.
C4_DebounceOneRequest == [](C4_Pending) /\ [][C4_Step]_vars
C4_Witness ==
  /\ event = "TimerFire"
  /\ burstEdits = 2
  /\ burstReqs = 1
  /\ out = <<Get(SearchUrl(<<"b", " ", "c">>))>>

\* C5: a print attempt that completes (answered, or failed) leaves the print
\* control enabled with the label "Print"; and when requests in flight
\* settle, the controller comes back to that state.
C5_Idle == ~printDisabled /\ printText = "Print"
C5_Completion ==
  BagCardinality(prints') < BagCardinality(prints) => ~printDisabled' /\ printText' = "Print"
\* C5 as a whole: every completion step ends idle, and a request in flight leads to idle.
C5_IdleAfterPrint == [][C5_Completion]_vars /\ (prints # EmptyBag ~> C5_Idle)
C5_Witness ==
  /\ event \in {"PrintAnswered", "PrintRejected"}
  /\ Effects("ALERT") # {}
  /\ C5_Idle

\* C6: while a product is selected, the preview source is the /preview URL of
\* its barcode and the current trimmed store-name and expiry texts, and the
\* metadata text describes it.
C6_PreviewCurrent ==
  selectedProduct # Null =>
    /\ previewSrc =
         Some(PreviewUrl(selectedProduct[1].barcode, Trim(storeValue), Trim(expValue)))
    /\ metaText = MetaText(selectedProduct[1])
C6_Witness ==
  /\ event = "StoreInput"
  /\ selectedProduct = Some(P2)
  /\ storeValue = <<"M">>
  /\ expValue = <<" ", "1", "/", "7">>
  /\ previewSrc = Some(<<"/preview?", "barcode=", "8", "2", "&store=", "M", "&exp=",
                         "1", "%", "2", "F", "7">>)

\* C7: a search-box edit whose trimmed text is empty hides the suggestion
\* list, issues no /api/products request and cancels the scheduled query: no
\* timer is pending, and no request is issued, until the next edit.
C7_Quiet == lastQ = <<>> => timers = {}
C7_Step ==
  /\ event' = "SearchInput" /\ lastQ' = <<>> =>
       /\ suggestionsDisplay' = "none"
       /\ EffectsNext("GET") = {}
       /\ timers' = {}
  /\ EffectsNext("GET") # {} => lastQ # <<>>
\* C7 as a whole: nothing is pending after an empty edit and every step obeys C7_Step.
C7_EmptyEditCancels == [](C7_Quiet) /\ [][C7_Step]_vars
C7_Witness ==
  /\ event = "SearchInput"
  /\ lastQ = <<>>
  /\ out = <<Cancelled>>
  /\ timers = {}
  /\ suggestionItems # <<>>
  /\ suggestionsDisplay = "none"

\* C8: a click on the suggestion row of product p selects p, puts p.name in
\* the search box, hides the suggestion list, enables the print control and
\* issues exactly one preview request, for p.barcode, and nothing else.
C8_Step ==
  \A i \in 1..2 :
    SuggestionClick(i) =>
      LET p == suggestionItems[i]
      IN  /\ selectedProduct' = Some(p)
          /\ searchValue' = p.name
          /\ suggestionsDisplay' = "none"
          /\ ~printDisabled'
          /\ out' = <<Img(PreviewUrl(p.barcode, Trim(storeValue), Trim(expValue)))>>
          /\ timers' = timers /\ searches' = searches
\* C8 as a whole: every step obeys C8_Step.
C8_SuggestionClick == [][C8_Step]_vars
C8_Witness ==
  /\ event = "SuggestionClick"
  /\ selectedProduct = Some(P1)
  /\ searchValue = <<"T">>
  /\ suggestionItems = <<P2, P1>>
  /\ prints # EmptyBag
  /\ out = <<Img(PreviewUrl(<<"8", "1">>, <<"M">>, <<>>))>>

\* C9: an edit of the store-name or expiry field issues one preview request
\* with the latest trimmed texts when a product is selected; with none
\* selected it issues nothing and leaves the preview source, the metadata
\* text, the selection and the print control as they were.
C9_Step ==
  event' \in {"StoreInput", "ExpInput"} =>
    IF selectedProduct # Null
      THEN LET url == PreviewUrl(selectedProduct[1].barcode, Trim(storeValue'), Trim(expValue'))
           IN  out' = <<Img(url)>> /\ previewSrc' = Some(url)
      ELSE /\ out' = <<>>
           /\ UNCHANGED <<previewSrc, metaText, selectedProduct, printDisabled, printText>>
\* C9 as a whole: every step obeys C9_Step.
C9_FieldEdit == [][C9_Step]_vars
C9_Witness ==
  /\ event = "StoreInput"
  /\ selectedProduct = Null
  /\ storeValue = <<"M">>
  /\ out = <<>>
  /\ ~printDisabled

\* C10: a print answer is reported as success, with the printed count, exactly
\* when the status is successful and the body has ok = true; every other
\* answer is reported as partial/failed with the printed count and the error
\* messages joined by "; " ("undefined" for an absent list); every print
\* attempt shows exactly one notification.
C10_Step ==
  /\ \A resOk \in BOOLEAN, data \in PrintBodies :
       PrintAnswered(PrintRecord, resOk, data) =>
         /\ Len(out') = 1
         /\ out'[1].effect = "ALERT"
         /\ (out'[1].text[1] = "Printed ") <=> (resOk /\ data.ok)
         /\ (resOk /\ data.ok) =>
              out'[1].text = <<"Printed ">> \o NatChars(data.printed) \o <<" label(s).">>
         /\ ~(resOk /\ data.ok) =>
              out'[1].text =
                <<"Partial/failed print. Printed: ">> \o NatChars(data.printed)
                  \o <<". Errors: ">>
                  \o (IF data.errors = Null THEN <<"undefined">>
                      ELSE Join(data.errors[1], <<";", " ">>))
  /\ Cardinality(EffectsNext("ALERT")) =
       Max(0, BagCardinality(prints) - BagCardinality(prints'))
\* C10 as a whole: every step obeys C10_Step.
C10_PrintReport == [][C10_Step]_vars
C10_Witness ==
  /\ event = "PrintAnswered"
  /\ out = <<Alert(<<"Partial/failed print. Printed: ", "0", ". Errors: ",
                     "j", "a", "m", ";", " ", "f", "e", "e", "d">>)>>

\* C11: a print request is issued only by a print click made while a product
\* is selected, and its body carries the barcode of the product selected at
\* the click; a print click with no selection issues nothing and leaves the
\* page, the selection and the requests in flight as they were.
C11_Step ==
  /\ EffectsNext("POST") # {} =>
       /\ event' = "PrintClick"
       /\ selectedProduct # Null
       /\ Len(out') = 1
       /\ out'[1].url = PrintUrl
       /\ out'[1].body[1].barcode = selectedProduct[1].barcode
  /\ event' = "PrintClick" /\ selectedProduct = Null =>
       /\ out' = <<>>
       /\ UNCHANGED <<selectedProduct, dom, prints, searches, timers>>
\* C11 as a whole: every step obeys C11_Step.
C11_PrintNeedsSelection == [][C11_Step]_vars
C11_Witness ==
  /\ event = "PrintClick"
  /\ selectedProduct = Null
  /\ out = <<>>
  /\ ~printDisabled
  /\ printText = "Print"
  /\ suggestionItems # <<>>

\* C12: every search-box edit, empty or not, leaves no product selected, the
\* print control disabled, the preview without a source and the metadata
\* text empty; a product becomes selected only by a suggestion click, and
\* every print or preview request carries the barcode of the product selected
\* when it is issued, so none carries a selection made before the last edit;
\* at most one product is selected.
C12_AfterEdit ==
  /\ Len(selectedProduct) <= 1
  /\ event = "SearchInput" =>
       selectedProduct = Null /\ printDisabled /\ previewSrc = Null /\ metaText = <<>>
C12_Step ==
  /\ event' = "SearchInput" =>
       selectedProduct' = Null /\ printDisabled' /\ previewSrc' = Null /\ metaText' = <<>>
  /\ selectedProduct' # selectedProduct /\ selectedProduct' # Null => event' = "SuggestionClick"
  /\ \A i \in EffectsNext("POST") \cup EffectsNext("IMG") :
       /\ selectedProduct' # Null
       /\ LET code == selectedProduct'[1].barcode
          IN  IF out'[i].effect = "POST"
                THEN out'[i].body[1].barcode = code
                ELSE out'[i].url = PreviewUrl(code, Trim(storeValue'), Trim(expValue'))
\* C12 as a whole: the state after an edit is cleared and every step obeys C12_Step.
C12_EditInvalidatesSelection == [](C12_AfterEdit) /\ [][C12_Step]_vars
C12_Witness ==
  /\ event = "SearchInput"
  /\ lastQ = <<>>
  /\ prints # EmptyBag
  /\ selectedProduct = Null
  /\ printDisabled
  /\ previewSrc = Null

\* C13: the answer to a request is rendered whenever it arrives, also after
\* the answer to a request issued later was rendered: it then replaces the
\* list of the later request.  Requests in flight together are answered in
\* any order, so the list shown need not be that of the request issued last.
C13_Step ==
  event' = "SearchRendered" =>
    \A k \in 1..Len(searches), items \in SearchResults :
      SearchRendered(k, items) /\ searches[k].overtaken =>
        /\ suggestionItems' = items
        /\ suggestionsDisplay' = IF items = <<>> THEN "none" ELSE "block"
        /\ staleRender'
\* C13 as a whole: every step obeys C13_Step.
C13_StaleAnswerRendered == [][C13_Step]_vars
\* The answer to the request for "a" shown after the later answer, an empty
\* one, was rendered, the box then holding " b c".
C13_Witness ==
  /\ staleRender
  /\ event = "SearchRendered"
  /\ searches = <<>>
  /\ lastQ = <<"b", " ", "c">>
  /\ suggestionItems = <<P1>>
  /\ suggestionsDisplay = "block"

\* C14: at most one POST /api/print request is in flight at any time.
C14_OnePrintInFlight == BagCardinality(prints) <= 1

\* C15: a search answer that is processed replaces the suggestion rows: the
\* list is hidden and empty for an empty array, and otherwise visible with
\* one row per product of the array, in its order; a click on a row selects
\* the product of that row.
C15_Step ==
  /\ event' = "SearchRendered" =>
       \A k \in 1..Len(searches), items \in SearchResults :
         SearchRendered(k, items) =>
           /\ suggestionItems' = items
           /\ suggestionsDisplay' = IF Len(items) = 0 THEN "none" ELSE "block"
  /\ event' = "SuggestionClick" =>
       \A i \in 1..Len(suggestionItems) :
         SuggestionClick(i) => selectedProduct' = Some(suggestionItems[i])
\* C15 as a whole: every step obeys C15_Step.
C15_RenderReplaces == [][C15_Step]_vars
C15_Witness ==
  /\ event = "SearchRendered"
  /\ selectedProduct = Some(P1)
  /\ suggestionItems = <<P2, P1>>
  /\ suggestionsDisplay = "block"

\* C16: when the print request rejects, or its body cannot be read, the
\* handler shows one notification, "Print failed: " and the reason, and no
\* other; it issues no request, leaves the selection as it was and ends.
C16_Step ==
  event' = "PrintRejected" =>
    \A message \in ErrorMessages :
      PrintRejected(PrintRecord, message) =>
        /\ out' = <<Alert(<<"Print failed: ">> \o message)>>
        /\ EffectsNext("POST") = {}
        /\ BagCardinality(prints') = BagCardinality(prints) - 1
        /\ UNCHANGED <<selectedProduct, searches, timers>>
\* C16 as a whole: every step obeys C16_Step.
C16_NetworkFailure == [][C16_Step]_vars
C16_Witness ==
  /\ event = "PrintRejected"
  /\ out = <<Alert(<<"Print failed: ", "Unexpected end of JSON input">>)>>
  /\ selectedProduct = Some(P1)
  /\ prints = EmptyBag

\* C17: while a product is selected the suggestion list is hidden, and while
\* the trimmed text of the last search-box edit is empty the suggestion list
\* is hidden.
C17_HiddenList ==
  /\ selectedProduct # Null => suggestionsDisplay = "none"
  /\ lastQ = <<>> => suggestionsDisplay = "none"

\* C18: while no product is selected, the preview image has no source and the
\* metadata text is empty: no step sets either of them and leaves none selected.
C18_NoSelectionNoPreview == selectedProduct = Null => previewSrc = Null /\ metaText = <<>>
C18_Witness ==
  /\ event = "ExpInput"
  /\ selectedProduct = Null
  /\ expValue = <<" ", "1", "/", "7">>
  /\ suggestionsDisplay = "block"
  /\ previewSrc = Null
  /\ metaText = <<>>

\* C19: when a search request fails, its callback ends: the suggestion rows
\* and their visibility, the selection, the preview, the print control and
\* every field stay as they were, no request is issued and no timer is set.
C19_Step ==
  event' = "SearchRejected" =>
    \A k \in 1..Len(searches) :
      SearchRejected(k) =>
        /\ UNCHANGED <<dom, selectedProduct, timers, searchTimer, prints>>
        /\ out' = <<>>
        /\ Len(searches') = Len(searches) - 1
\* C19 as a whole: every step obeys C19_Step.
C19_SearchFailure == [][C19_Step]_vars
C19_Witness ==
  /\ event = "SearchRejected"
  /\ suggestionsDisplay = "block"
  /\ suggestionItems = <<P1>>
  /\ lastQ = <<"a">>
  /\ searches = <<>>
  /\ timers = {}

\* C20: at most one debounce timer is pending; one is pending only while the
\* trimmed text of the last search-box edit is not empty, and it is the one
\* searchTimer names, set for that text; every /api/products request is
\* issued by a due timer, for the text the timer was set with.
C20_OneTimer ==
  /\ Cardinality(timers) <= 1
  /\ timers # {} => lastQ # <<>>
  /\ \A t \in timers : t.id = searchTimer /\ t.q = lastQ
C20_Step ==
  EffectsNext("GET") # {} =>
    \E t \in timers :
      /\ t.remaining = 0
      /\ t \notin timers'
      /\ out' = <<Get(<<"/api/products?q=">> \o encodeURIComponent(t.q))>>
\* C20 as a whole: the timer invariant holds always and every step obeys C20_Step.
C20_SingleTimer == [](C20_OneTimer) /\ [][C20_Step]_vars
C20_Witness ==
  /\ event = "SearchInput"
  /\ out = <<Cancelled>>
  /\ Cardinality(timers) = 1
  /\ lastQ = <<"a">>
  /\ searches # <<>>
  /\ searchTimer = 2

====
